---- MODULE Spec2Model ----
(***************************************************************************)
(* A model of package zapgcl (src/zapgcl.go): the zapcore.Core that        *)
(* forwards zap entries to Google Cloud Logging.                           *)
(*                                                                         *)
(* Go maps are reference values, so field maps live in a heap and a Core   *)
(* holds a reference into it; strings that the code slices or tests for a  *)
(* prefix (the payload keys) are sequences of characters.                  *)
(***************************************************************************)
EXTENDS Integers, Sequences, FiniteSets, TLC

\* ------------------------------------------------------------------ bounds
MaxCores == 3
MaxWriteCores == 2
MaxWrites == 2
MaxSyncs == 3
NumWriters == 2

\* ------------------------------------------------------------ zapcore levels
DebugLevel == -1
InfoLevel == 0
WarnLevel == 1
ErrorLevel == 2
DPanicLevel == 3
PanicLevel == 4
FatalLevel == 5
Levels == DebugLevel..FatalLevel

\* ---------------------------------------------------------------- strings
\* Keys are sequences of characters: Write tests them for a prefix and slices them.
LabelsPrefix == <<"l","a","b","e","l","s",".">>
KeyLabelsEnv == LabelsPrefix \o <<"e","n","v">>
KeyLabelsTier == LabelsPrefix \o <<"t","i","e","r">>
KeyLabels == <<"l","a","b","e","l","s">>
KeyUser == <<"u","s","e","r">>
KeyI == <<"i">>
KeyMessage == <<"m","e","s","s","a","g","e">>
KeyStack == <<"s","t","a","c","k">>
KeyHTTPRequest == <<"h","t","t","p","R","e","q","u","e","s","t">>
InsertIDKey ==
    <<"l","o","g","g","i","n","g",".","g","o","o","g","l","e","a","p","i","s",
      ".","c","o","m","/","i","n","s","e","r","t","I","d">>

\* strings.HasPrefix(s, prefix)
HasPrefix(s, prefix) ==
    /\ Len(s) >= Len(prefix)
    /\ SubSeq(s, 1, Len(prefix)) = prefix

\* the Go slice expression s[n:]
SliceFrom(s, n) == SubSeq(s, n + 1, Len(s))

\* ------------------------------------------------------- machine words
\* A fixed-width integer is the sequence of its bytes, most significant first:
\* zapcore.Field.Integer is an int64, eight bytes in two's complement.
\* the n bytes of the natural number x
RECURSIVE ToBytes(_, _)
ToBytes(x, n) == IF n = 0 THEN <<>> ELSE Append(ToBytes(x \div 256, n - 1), x % 256)

\* the bitwise complement
Invert(bs) == [i \in DOMAIN bs |-> 255 - bs[i]]

\* bs + 1, wrapping around at the width of bs
RECURSIVE Increment(_)
Increment(bs) ==
    IF bs = <<>> THEN <<>>
    ELSE LET n == Len(bs)
         IN IF bs[n] < 255 THEN [bs EXCEPT ![n] = @ + 1]
            ELSE Append(Increment(SubSeq(bs, 1, n - 1)), 0)

\* -bs in two's complement at the width of bs
Negate(bs) == Increment(Invert(bs))

\* the int64 of a small integer x
Int64Of(x) == IF x >= 0 THEN ToBytes(x, 8) ELSE Invert(ToBytes(-(x + 1), 8))

\* bs widened to eight bytes with zero bytes
Pad8(bs) == [i \in 1..(8 - Len(bs)) |-> 0] \o bs

\* the conversion of an int64 to an integer type of w bytes: the low w bytes
TruncateHigh(slot, w) == SubSeq(slot, 1, w)

Truncate(slot, w) == SubSeq(slot, 9 - w, 8)

\* the n bits of the natural number x, most significant first
RECURSIVE ToBits(_, _)
ToBits(x, n) == IF n = 0 THEN <<>> ELSE Append(ToBits(x \div 2, n - 1), x % 2)

\* the bits of a byte sequence, and the bytes of a bit sequence
RECURSIVE BitsOf(_)
BitsOf(bs) == IF bs = <<>> THEN <<>> ELSE ToBits(Head(bs), 8) \o BitsOf(Tail(bs))

RECURSIVE BytesOf(_)
BytesOf(bits) ==
    IF bits = <<>> THEN <<>>
    ELSE <<128 * bits[1] + 64 * bits[2] + 32 * bits[3] + 16 * bits[4]
             + 8 * bits[5] + 4 * bits[6] + 2 * bits[7] + bits[8]>>
         \o BytesOf(SubSeq(bits, 9, Len(bits)))

Zeros(n) == [i \in 1..n |-> 0]

\* bits + 1, wrapping around
RECURSIVE IncrementBits(_)
IncrementBits(bits) ==
    IF bits = <<>> THEN <<>>
    ELSE LET n == Len(bits)
         IN IF bits[n] = 0 THEN [bits EXCEPT ![n] = 1]
            ELSE Append(IncrementBits(SubSeq(bits, 1, n - 1)), 0)

\* the conversion of an int64 to a floating-point type with the given exponent
\* width, mantissa width and bias, as the bytes of its IEEE 754 encoding: the
\* nearest float to the integer's numeric value, ties to even
FloatOfInt(slot, expBits, mantBits, bias) ==
    LET bits == BitsOf(slot)
        sign == bits[1]
        mag == IF sign = 1 THEN BitsOf(Negate(slot)) ELSE bits
    IN IF mag = Zeros(64) THEN BytesOf(Zeros(1 + expBits + mantBits))
       ELSE LET top == CHOOSE i \in 1..64 :
                          mag[i] = 1 /\ \A j \in 1..(i - 1) : mag[j] = 0
                h == 64 - top
                frac == SubSeq(mag, top + 1, 64)
                mant0 == IF h <= mantBits THEN frac \o Zeros(mantBits - h)
                         ELSE SubSeq(frac, 1, mantBits)
                rest == IF h <= mantBits THEN <<>> ELSE SubSeq(frac, mantBits + 1, h)
                up == /\ rest # <<>>
                      /\ rest[1] = 1
                      /\ \/ \E i \in 2..Len(rest) : rest[i] = 1
                         \/ mant0[mantBits] = 1
                carry == up /\ mant0 = [i \in 1..mantBits |-> 1]
                mant == IF up THEN IncrementBits(mant0) ELSE mant0
                exp == bias + h + (IF carry THEN 1 ELSE 0)
            IN BytesOf(<<sign>> \o ToBits(exp, expBits) \o mant)

\* ------------------------------------------------------------- Go values
\* An interface{} value: its dynamic type t with a string part s, a small integer
\* part n, or the bytes b of a fixed-width number.
NilValue == [t |-> "nil", s |-> "", n |-> 0, b |-> <<>>]
StringValue(x) == [t |-> "string", s |-> x, n |-> 0, b |-> <<>>]
BoolValue(x) == [t |-> "bool", s |-> "", n |-> IF x THEN 1 ELSE 0, b |-> <<>>]
IntValue(x) == [t |-> "int", s |-> "", n |-> x, b |-> <<>>]
\* a value of a fixed-width integer or float type, by its bytes
NumberValue(type, bs) == [t |-> type, s |-> "", n |-> 0, b |-> bs]
\* a *zapdriver.HTTPPayload with its RequestMethod and Status
HTTPPayloadValue(method, status) ==
    [t |-> "*zapdriver.HTTPPayload", s |-> method, n |-> status, b |-> <<>>]

\* ------------------------------------------------------------------ maps
\* A map[string]interface{} is a function from its keys; a nil map reads as empty.
EmptyMap == [k \in {} |-> NilValue]
Put(m, k, v) == [x \in (DOMAIN m) \cup {k} |-> IF x = k THEN v ELSE m[x]]
Del(m, k) == [x \in (DOMAIN m) \ {k} |-> m[x]]

NilRef == 0
Deref(h, r) == IF r \in 1..Len(h) THEN h[r] ELSE EmptyMap
\* the map stored at reference r (a fresh reference extends the heap)
Store(h, r, m) ==
    IF r = Len(h) + 1 THEN Append(h, m)
    ELSE IF r \in 1..Len(h) THEN [h EXCEPT ![r] = m]
    ELSE h

\* --------------------------------------------------------- zapcore.Field
Field(key, type, integer, string, interface) ==
    [Key |-> key, Type |-> type, Integer |-> integer, String |-> string,
     Interface |-> interface]

\* the field types clone's switch has a case for
HandledTypes ==
    {"ArrayMarshalerType", "ObjectMarshalerType", "BinaryType", "BoolType",
     "ByteStringType", "Complex128Type", "Complex64Type", "DurationType",
     "Float64Type", "Float32Type", "Int64Type", "Int32Type", "Int16Type", "Int8Type",
     "StringType", "TimeType", "Uint64Type", "Uint32Type", "Uint16Type", "Uint8Type",
     "UintptrType", "ReflectType", "StringerType", "ErrorType", "SkipType"}

\* the default case: the field's Interface as it is
DefaultCaseString(f) == StringValue(f.String)

DefaultCase(f) == f.Interface

\* the canonical value clone stores for a field (the switch on f.Type); the
\* complex, duration and time cases are not modelled and no field here has them
Classify(f) ==
    CASE f.Type = "BoolType" -> BoolValue(f.Integer = Int64Of(1))
      [] f.Type = "ByteStringType" -> StringValue(f.String)
      [] f.Type = "Float64Type" -> NumberValue("float64", FloatOfInt(f.Integer, 11, 52, 1023))
      [] f.Type = "Float32Type" -> NumberValue("float32", FloatOfInt(f.Integer, 8, 23, 127))
      [] f.Type = "Int64Type" -> NumberValue("int64", Truncate(f.Integer, 8))
      [] f.Type = "Int32Type" -> NumberValue("int32", Truncate(f.Integer, 4))
      [] f.Type = "Int16Type" -> NumberValue("int16", Truncate(f.Integer, 2))
      [] f.Type = "Int8Type" -> NumberValue("int8", Truncate(f.Integer, 1))
      [] f.Type = "StringType" -> StringValue(f.String)
      [] f.Type = "Uint64Type" -> NumberValue("uint64", Truncate(f.Integer, 8))
      [] f.Type = "Uint32Type" -> NumberValue("uint32", Truncate(f.Integer, 4))
      [] f.Type = "Uint16Type" -> NumberValue("uint16", Truncate(f.Integer, 2))
      [] f.Type = "Uint8Type" -> NumberValue("uint8", Truncate(f.Integer, 1))
      [] f.Type = "UintptrType" -> NumberValue("uintptr", Truncate(f.Integer, 8))
      [] f.Type \in {"ArrayMarshalerType", "ObjectMarshalerType", "BinaryType",
                     "ReflectType"} -> f.Interface
      [] f.Type \in {"StringerType", "ErrorType"} -> StringValue(f.Interface.s)
      [] OTHER -> DefaultCase(f)

\* one iteration of clone's loop over newFields
CloneFieldFirstWins(m, f) ==
    IF f.Type = "SkipType" \/ f.Key \in DOMAIN m THEN m ELSE Put(m, f.Key, Classify(f))

CloneField(m, f) ==
    IF f.Type = "SkipType" THEN m ELSE Put(m, f.Key, Classify(f))

RECURSIVE CloneFields(_, _)
CloneFields(m, newFields) ==
    IF newFields = <<>> THEN m
    ELSE CloneFields(CloneField(m, Head(newFields)), Tail(newFields))

\* the reference of the map clone writes to: make(map[string]interface{})
CloneAliasRef(h, origRef) == IF origRef = NilRef THEN Len(h) + 1 ELSE origRef

CloneRef(h, origRef) == Len(h) + 1

\* the content of clone(orig, newFields)
clone(orig, newFields) == CloneFields(orig, newFields)


\* ---------------------------------------------------- severity mapping
\* DefaultSeverityMapping, as a function from zapcore levels to gcl severities
DefaultSeverityMapping ==
    [l \in Levels |->
        CASE l = DebugLevel -> "Debug"
          [] l = InfoLevel -> "Info"
          [] l = WarnLevel -> "Warning"
          [] l = ErrorLevel -> "Error"
          [] OTHER -> "Critical"]

\* a nil SeverityMapping (Core{} leaves it unset)
NilSeverityMapping == [l \in {} |-> "Default"]

\* a caller's own table, which maps only some levels
CustomSeverityMapping ==
    [l \in {InfoLevel, ErrorLevel} |-> IF l = InfoLevel THEN "Notice" ELSE "Alert"]

\* severity, specified := c.SeverityMapping[ze.Level]; Default when unspecified
SeverityDropped(mapping, level) ==
    IF level \in DOMAIN mapping THEN mapping[level] ELSE "Debug"

SeverityOf(mapping, level) ==
    IF level \in DOMAIN mapping THEN mapping[level] ELSE "Default"

\* ------------------------------------------------------------- errors
NoError == <<>>
packageName == "gcloudzap"
newError(format, err) == <<packageName, format>> \o err

\* ------------------------------------------- go-logger: trace propagation
traceKey ==
    <<"l", "o", "g", "g", "i", "n", "g", ".", "g", "o", "o", "g", "l", "e", "a",
      "p", "i", "s", ".", "c", "o", "m", "/", "t", "r", "a", "c", "e">>
spanKey ==
    <<"l", "o", "g", "g", "i", "n", "g", ".", "g", "o", "o", "g", "l", "e", "a",
      "p", "i", "s", ".", "c", "o", "m", "/", "s", "p", "a", "n", "I", "d">>
traceSampledKey ==
    <<"l", "o", "g", "g", "i", "n", "g", ".", "g", "o", "o", "g", "l", "e", "a",
      "p", "i", "s", ".", "c", "o", "m", "/", "t", "r", "a", "c", "e", "_", "s",
      "a", "m", "p", "l", "e", "d">>

\* the character class [a-f\d] of reCloudTraceContext, and \d
HexChars == {"0", "1", "2", "3", "4", "5", "6", "7", "8", "9", "a", "b", "c", "d", "e", "f"}
Digits == {"0", "1", "2", "3", "4", "5", "6", "7", "8", "9"}

\* the length of the longest run of [a-f\d] in s from position i on
RECURSIVE HexRun(_, _)
HexRun(s, i) == IF i <= Len(s) /\ s[i] \in HexChars THEN 1 + HexRun(s, i + 1) ELSE 0

\* reCloudTraceContext.FindStringSubmatch(s): the leftmost match starts at the
\* first character, every group being optional and greedy; a group that did not
\* take part is the empty string
FindStringSubmatch(s) ==
    LET n1 == HexRun(s, 1)
        g1 == SubSeq(s, 1, n1)
        p2 == n1 + 1
        n2 == IF p2 <= Len(s) /\ s[p2] = "/" THEN HexRun(s, p2 + 1) ELSE 0
        g2 == IF n2 > 0 THEN SubSeq(s, p2 + 1, p2 + n2) ELSE <<>>
        p3 == IF n2 > 0 THEN p2 + 1 + n2 ELSE p2
        has3 == /\ p3 + 3 <= Len(s)
                /\ SubSeq(s, p3, p3 + 2) = <<";", "o", "=">>
                /\ s[p3 + 3] \in Digits
        g3 == IF has3 THEN <<s[p3 + 3]>> ELSE <<>>
        whole == SubSeq(s, 1, IF has3 THEN p3 + 3 ELSE p3 - 1)
    IN <<whole, g1, g2, g3>>

\* if spanID == "0" { spanID = "" }
SpanKept(spanID) == spanID

NormalizeSpan(spanID) == IF spanID = <<"0">> THEN <<>> ELSE spanID

deconstructXCloudTraceContext(s) ==
    LET matches == FindStringSubmatch(s)
    IN [TraceID |-> matches[2], SpanID |-> NormalizeSpan(matches[3]),
        Sampled |-> matches[4] = <<"1">>]

\* fmt.Sprintf("projects/%s/traces/%s", projectName, trace)
TraceName(projectName, id) ==
    <<"p", "r", "o", "j", "e", "c", "t", "s", "/">> \o projectName
        \o <<"/", "t", "r", "a", "c", "e", "s", "/">> \o id

\* zap.String, zap.String and zap.Bool under the three keys
addCloudLoggingFields(id, spanId, sampled, projectName) ==
    <<Field(traceKey, "StringType", Int64Of(0), TraceName(projectName, id), NilValue),
      Field(spanKey, "StringType", Int64Of(0), spanId, NilValue),
      Field(traceSampledKey, "BoolType", Int64Of(IF sampled THEN 1 ELSE 0), "", NilValue)>>

\* zap.Skip()
ZapSkip == Field(<<>>, "SkipType", Int64Of(0), "", NilValue)

\* the three fields TraceContext returns for the *Trace t of the context
TraceContextFields(t, project) ==
    IF t.set THEN addCloudLoggingFields(t.TraceID, t.SpanID, t.Sampled, project)
    ELSE <<ZapSkip, ZapSkip, ZapSkip>>

\* ------------------------------------------------------------ the state
VARIABLES
    cores,      \* the Cores built so far: Logger, SeverityMapping, MinLevel, fields
    heap,       \* the field and payload maps, by reference
    sinkLog,    \* per Logger: the entries handed to Log, in order
    sinkFlush,  \* per Logger: the number of Flush calls
    call,       \* per caller: the Write call it is in
    nCalls,     \* the number of Write calls begun
    syncs,      \* per Sync call, in order: its core, Flush's error, its result
    hist,       \* per Core: how it was built (parent, new fields, values then)
    writes,     \* per Log call, in order: the Write call (core, entry, fields) and the record
    tee,        \* the composite built by Tee: the wrapped core's levels, the cloud Core
    zcOut,      \* the entries written to the wrapped core
    checked,    \* the last Check call: its core (0: the composite), the entry, the cores added
    trace,      \* the *Trace in the context of the request being served
    traceOut,   \* the last TraceContext call: the project and the fields it returned
    visited,    \* per Write call: the payload keys in the order its range loop met them
    built       \* the last constructor call: its arguments and what it returned

teeVars == <<tee, zcOut, checked>>
auxVars == <<trace, traceOut, visited, built>>
vars ==
    <<cores, heap, sinkLog, sinkFlush, call, nCalls, syncs, hist, writes, teeVars, auxVars>>

LoggerIds == {"gcl", "audit"}
Writers == 1..NumWriters

Core(logger, mapping, minLevel, fields) ==
    [Logger |-> logger, SeverityMapping |-> mapping, MinLevel |-> minLevel,
     fields |-> fields]

\* a zapcore.Entry
Entry(level, message, stack, loggerName, time, callerLine) ==
    [Level |-> level, Message |-> message, Stack |-> stack,
     LoggerName |-> loggerName, Time |-> time, CallerLine |-> callerLine]

\* the gcl.Entry Write starts from
GclEntry(ze, severity, payload) ==
    [Timestamp |-> ze.Time, Severity |-> severity, Payload |-> payload,
     LogName |-> ze.LoggerName, Labels |-> EmptyMap, HTTPRequest |-> <<>>,
     InsertID |-> "", SourceLocation |-> <<>>]

NoEntry == Entry(InfoLevel, "", "", "", 0, 0)
IdleCall ==
    [pc |-> "idle", id |-> 0, core |-> 0, ze |-> NoEntry, newFields |-> <<>>,
     payload |-> NilRef, todo |-> {}, entry |-> GclEntry(NoEntry, "Default", NilRef),
     result |-> NoError]

\* no composite built yet
NoTee == [by |-> "", zc |-> {}, gc |-> 0]

\* an unrecovered panic ends the process
Crashed == \E w \in Writers : call[w].pc = "panicked"

\* ------------------------------------------------------------ Core.With
With(c, newFields) ==
    /\ ~Crashed
    /\ c \in 1..Len(cores)
    /\ Len(cores) < MaxCores
    /\ LET ref == CloneRef(heap, cores[c].fields)
           m == clone(Deref(heap, cores[c].fields), newFields)
       IN /\ heap' = Store(heap, ref, m)
          /\ cores' = Append(cores, Core(cores[c].Logger, cores[c].SeverityMapping,
                                         cores[c].MinLevel, ref))
          /\ hist' = Append(hist, [parent |-> c, added |-> newFields, fields0 |-> m,
                                   mapping0 |-> cores[c].SeverityMapping,
                                   minLevel0 |-> cores[c].MinLevel])
    /\ UNCHANGED <<sinkLog, sinkFlush, call, nCalls, syncs, writes, teeVars, auxVars>>

\* --------------------------------------- Core.With, statement by statement
\* the With calls that have not returned yet
Deriving == {w \in Writers : call[w].pc \in {"copy", "made"}}

\* With enters clone: clone := make(map[string]interface{})
WithBegin(w, c, newFields) ==
    /\ ~Crashed
    /\ call[w].pc \in {"idle", "returned"}
    /\ c \in 1..Len(cores)
    /\ Len(cores) + Cardinality(Deriving) < MaxCores
    /\ LET ref == CloneRef(heap, cores[c].fields)
       IN /\ heap' = Store(heap, ref, EmptyMap)
          /\ call' = [call EXCEPT ![w] =
                 [IdleCall EXCEPT !.pc = "copy", !.core = c, !.newFields = newFields,
                                  !.payload = ref,
                                  !.todo = DOMAIN Deref(heap, cores[c].fields)]]
    /\ UNCHANGED <<cores, sinkLog, sinkFlush, nCalls, syncs, hist, writes, teeVars,
                   auxVars>>

\* one iteration of "for k, v := range orig": clone[k] = v
WithCopy(w, k) ==
    /\ ~Crashed
    /\ call[w].pc = "copy"
    /\ k \in call[w].todo
    /\ LET orig == Deref(heap, cores[call[w].core].fields)
           own == Deref(heap, call[w].payload)
       IN heap' = IF k \in DOMAIN orig
                  THEN Store(heap, call[w].payload, Put(own, k, orig[k]))
                  ELSE heap
    /\ call' = [call EXCEPT ![w].todo = @ \ {k}]
    /\ UNCHANGED <<cores, sinkLog, sinkFlush, nCalls, syncs, hist, writes, teeVars,
                   auxVars>>

\* the loop over newFields, after the copy
WithFields(w) ==
    /\ ~Crashed
    /\ call[w].pc = "copy"
    /\ call[w].todo = {}
    /\ heap' = Store(heap, call[w].payload,
                     CloneFields(Deref(heap, call[w].payload), call[w].newFields))
    /\ call' = [call EXCEPT ![w].pc = "made"]
    /\ UNCHANGED <<cores, sinkLog, sinkFlush, nCalls, syncs, hist, writes, teeVars,
                   auxVars>>

\* With returns the new Core
WithReturn(w) ==
    /\ ~Crashed
    /\ call[w].pc = "made"
    /\ LET c == call[w].core
       IN /\ cores' = Append(cores, Core(cores[c].Logger, cores[c].SeverityMapping,
                                         cores[c].MinLevel, call[w].payload))
          /\ hist' = Append(hist, [parent |-> c, added |-> call[w].newFields,
                                   fields0 |-> Deref(heap, call[w].payload),
                                   mapping0 |-> cores[c].SeverityMapping,
                                   minLevel0 |-> cores[c].MinLevel])
    /\ call' = [call EXCEPT ![w] = [IdleCall EXCEPT !.pc = "returned"]]
    /\ UNCHANGED <<heap, sinkLog, sinkFlush, nCalls, syncs, writes, teeVars, auxVars>>

\* ----------------------------------------------------------- Core.Write
\* payload with the entry's stack and message stored
WithStackAndMessageKept(p, ze) ==
    LET p1 == IF ze.Stack # "" THEN Put(p, KeyStack, StringValue(ze.Stack)) ELSE p
    IN IF KeyMessage \in DOMAIN p1 THEN p1 ELSE Put(p1, KeyMessage, StringValue(ze.Message))

WithStackAndMessage(p, ze) ==
    LET p1 == IF ze.Stack # "" THEN Put(p, KeyStack, StringValue(ze.Stack)) ELSE p
    IN Put(p1, KeyMessage, StringValue(ze.Message))

\* Write up to the range loop: severity, clone, stack, message, the gcl.Entry
WriteBegin(w, c, ze, newFields) ==
    /\ ~Crashed
    /\ call[w].pc \in {"idle", "returned"}
    /\ nCalls < MaxWrites
    /\ c \in 1..Len(cores)
    /\ LET severity == SeverityOf(cores[c].SeverityMapping, ze.Level)
           ref == CloneRef(heap, cores[c].fields)
           p == WithStackAndMessage(clone(Deref(heap, cores[c].fields), newFields), ze)
       IN /\ heap' = Store(heap, ref, p)
          /\ call' = [call EXCEPT ![w] =
                 [pc |-> "range", id |-> nCalls + 1, core |-> c, ze |-> ze,
                  newFields |-> newFields,
                  payload |-> ref, todo |-> DOMAIN p,
                  entry |-> GclEntry(ze, severity, ref), result |-> NoError]]
    /\ nCalls' = nCalls + 1
    /\ UNCHANGED <<cores, sinkLog, sinkFlush, syncs, hist, writes>>

\* a Write call made on Core c directly
WriteCall(w, c, ze, newFields) ==
    /\ WriteBegin(w, c, ze, newFields)
    /\ UNCHANGED <<teeVars, auxVars>>

\* new_k := k[7:]
LabelNameShort(k) == SliceFrom(k, 6)

LabelName(k) == SliceFrom(k, 7)

\* the *gcl.HTTPRequest built from a *zapdriver.HTTPPayload
HTTPRequestOf(v) == <<[Method |-> v.s, Status |-> v.n]>>

\* the keys "for k, v := range payload" has yet to produce once it has produced k:
\* deleting k inside the loop takes no other key away
RangeStops(todo, k) == {}

RangeRest(todo, k) == todo \ {k}

\* one iteration of "for k, v := range payload": any key not yet visited
WriteRangeBody(w, k) ==
    /\ ~Crashed
    /\ call[w].pc = "range"
    /\ k \in call[w].todo
    /\ LET p == Deref(heap, call[w].payload)
           v == p[k]
       IN IF HasPrefix(k, LabelsPrefix)
          THEN IF v.t = "string"
               THEN /\ call' = [call EXCEPT
                          ![w].entry.Labels = Put(@, LabelName(k), v.s),
                          ![w].todo = RangeRest(@, k)]
                    /\ heap' = Store(heap, call[w].payload, Del(p, k))
               ELSE \* v.(string) panics
                    /\ call' = [call EXCEPT ![w].pc = "panicked"]
                    /\ UNCHANGED heap
          ELSE IF k = KeyHTTPRequest
          THEN IF v.t = "*zapdriver.HTTPPayload"
               THEN /\ call' = [call EXCEPT
                          ![w].entry.HTTPRequest = HTTPRequestOf(v),
                          ![w].todo = RangeRest(@, k)]
                    /\ heap' = Store(heap, call[w].payload, Del(p, k))
               ELSE \* v.(*zapdriver.HTTPPayload) panics
                    /\ call' = [call EXCEPT ![w].pc = "panicked"]
                    /\ UNCHANGED heap
          ELSE /\ call' = [call EXCEPT ![w].todo = RangeRest(@, k)]
               /\ UNCHANGED heap
    /\ UNCHANGED <<cores, sinkLog, sinkFlush, nCalls, syncs, hist, writes, teeVars,
                   trace, traceOut, built>>

WriteRange(w, k) ==
    /\ WriteRangeBody(w, k)
    /\ UNCHANGED visited

\* Write with its range loop's order recorded, call by call
WriteCallTraced(w, c, ze, newFields) ==
    /\ WriteBegin(w, c, ze, newFields)
    /\ visited' = Append(visited, <<>>)
    /\ UNCHANGED <<teeVars, trace, traceOut, built>>

WriteRangeTraced(w, k) ==
    /\ WriteRangeBody(w, k)
    /\ visited' = [visited EXCEPT ![call[w].id] = Append(@, k)]

\* insertID, ok := payload[InsertIDKey].(string); set when ok and not empty
InsertIDDropped(p) == ""

InsertIDOf(p) ==
    IF InsertIDKey \in DOMAIN p /\ p[InsertIDKey].t = "string"
    THEN p[InsertIDKey].s ELSE ""

\* the entry's source location, when ze.Caller.Defined
SourceLocationOf(ze) ==
    IF ze.CallerLine # 0 THEN <<[File |-> "main.go", Line |-> ze.CallerLine]>> ELSE <<>>

\* testLogger.Log: append under the mutex
LogTwice(entries, e) == Append(Append(entries, e), e)

Log(entries, e) == Append(entries, e)

\* after the loop: the insert id, the source location, c.Logger.Log(entry)
WriteLog(w) ==
    /\ ~Crashed
    /\ call[w].pc = "range"
    /\ call[w].todo = {}
    /\ LET p == Deref(heap, call[w].payload)
           e == [call[w].entry EXCEPT
                   !.InsertID = InsertIDOf(p),
                   !.SourceLocation = SourceLocationOf(call[w].ze)]
           logger == cores[call[w].core].Logger
       IN /\ heap' = Store(heap, call[w].payload, Del(p, InsertIDKey))
          /\ call' = [call EXCEPT ![w].entry = e, ![w].pc = "return"]
          /\ sinkLog' = [sinkLog EXCEPT ![logger] = Log(@, e)]
          /\ writes' = Append(writes, [caller |-> w, core |-> call[w].core,
                                       ze |-> call[w].ze,
                                       newFields |-> call[w].newFields, entry |-> e])
    /\ UNCHANGED <<cores, sinkFlush, nCalls, syncs, hist, teeVars, auxVars>>

\* return nil
WriteReturn(w) ==
    /\ ~Crashed
    /\ call[w].pc = "return"
    /\ call' = [call EXCEPT ![w].pc = "returned", ![w].result = NoError]
    /\ UNCHANGED <<cores, heap, sinkLog, sinkFlush, nCalls, syncs, hist, writes, teeVars,
                   auxVars>>

\* ------------------------------------------------------------ Core.Sync
SyncReturnSwallow(err) == NoError

SyncReturn(err) ==
    IF err # NoError THEN newError("flushing Google Cloud logger: %v", err)
    ELSE NoError

\* Sync on core c, whose Logger's Flush returns err
Sync(c, err) ==
    /\ ~Crashed
    /\ c \in 1..Len(cores)
    /\ Len(syncs) < MaxSyncs
    /\ sinkFlush' = [sinkFlush EXCEPT ![cores[c].Logger] = @ + 1]
    /\ syncs' = Append(syncs, [core |-> c, err |-> err, result |-> SyncReturn(err),
                               begun |-> nCalls, logged |-> Len(writes)])
    /\ UNCHANGED <<cores, heap, sinkLog, call, nCalls, hist, writes, teeVars, auxVars>>

\* ------------------------------------------- Core.Enabled, Core.Check
EnabledAbove(c, l) == l > cores[c].MinLevel

Enabled(c, l) == l >= cores[c].MinLevel

\* ce.AddCore(e, c): the checked entry with core c added
AddCore(ce, c) == Append(ce, c)

CheckAlways(c, e, ce) == AddCore(ce, c)

Check(c, e, ce) == IF Enabled(c, e.Level) THEN AddCore(ce, c) ELSE ce

\* a Check call on Core c with entry e and an empty checked entry
CheckCall(c, e) ==
    /\ ~Crashed
    /\ c \in 1..Len(cores)
    /\ checked' = [core |-> c, ze |-> e, ce |-> Check(c, e, <<>>)]
    /\ UNCHANGED <<cores, heap, sinkLog, sinkFlush, call, nCalls, syncs, hist, writes,
                   tee, zcOut, auxVars>>

\* ------------------------------------------------------------------ Tee
\* the wrapped core zc is known by the set of levels it is enabled at; in a checked
\* entry it stands as core 0
ZcCore == 0
ZcEnabled(levels, l) == l \in levels
ZcCheck(levels, e, ce) == IF ZcEnabled(levels, e.Level) THEN AddCore(ce, ZcCore) ELSE ce

\* the MinLevel Tee leaves in gc: the first level from debug to fatal that zc is
\* enabled at, or the zero Level when there is none
TeeMinLevel(levels) ==
    IF \E l \in Levels : ZcEnabled(levels, l)
    THEN CHOOSE l \in Levels :
            ZcEnabled(levels, l) /\ \A k \in Levels : ZcEnabled(levels, k) => l <= k
    ELSE InfoLevel

\* Tee(zc, client, gclLogID)
Tee(levels) ==
    /\ tee = NoTee
    /\ cores' = Append(cores, Core("gcl", DefaultSeverityMapping, TeeMinLevel(levels),
                                   NilRef))
    /\ hist' = Append(hist, [parent |-> 0, added |-> <<>>, fields0 |-> EmptyMap,
                             mapping0 |-> DefaultSeverityMapping,
                             minLevel0 |-> TeeMinLevel(levels)])
    /\ tee' = [by |-> "Tee", zc |-> levels, gc |-> Len(cores) + 1]
    /\ UNCHANGED <<heap, sinkLog, sinkFlush, call, nCalls, syncs, writes, zcOut, checked>>

\* a Tee call made by the program itself
TeeCall(levels) ==
    /\ Tee(levels)
    /\ UNCHANGED auxVars

\* zapcore.NewTee(zc, c) over a Core the caller built
NewTee(levels, c) ==
    /\ tee = NoTee
    /\ c \in 1..Len(cores)
    /\ tee' = [by |-> "NewTee", zc |-> levels, gc |-> c]
    /\ UNCHANGED <<cores, heap, sinkLog, sinkFlush, call, nCalls, syncs, hist, writes,
                   zcOut, checked, auxVars>>

\* the composite's Enabled: some child is
TeeEnabled(l) == ZcEnabled(tee.zc, l) \/ Enabled(tee.gc, l)

\* the composite's Check: each child's Check in turn
TeeCheck(e) == Check(tee.gc, e, ZcCheck(tee.zc, e, <<>>))

\* the logger logs entry ze with fields through the composite: Check, then Write on
\* every core the entry was added to
TeeLog(w, ze, newFields) ==
    /\ tee # NoTee
    /\ ~Crashed
    /\ call[w].pc \in {"idle", "returned"}
    /\ Len(zcOut) < MaxWrites
    /\ nCalls < MaxWrites
    /\ LET ce == TeeCheck(ze)
           on == {ce[i] : i \in DOMAIN ce}
       IN /\ checked' = [core |-> 0, ze |-> ze, ce |-> ce]
          /\ zcOut' = IF ZcCore \in on THEN Append(zcOut, ze) ELSE zcOut
          /\ IF tee.gc \in on
             THEN WriteBegin(w, tee.gc, ze, newFields)
             ELSE UNCHANGED <<cores, heap, sinkLog, sinkFlush, call, nCalls, syncs,
                              hist, writes>>
    /\ UNCHANGED <<tee, auxVars>>

\* ------------------------------------------------------- constructors
\* a nil *gcl.Client, and the client gcl.NewClient makes
NilClient == 0
AClient == 1

\* newClient(projectID); made is what gcl.NewClient returns
newClientUnchecked(projectID, made) == made

newClient(projectID, made) ==
    IF projectID = ""
    THEN [client |-> NilClient, err |-> newError("the provided projectID is empty", <<>>)]
    ELSE made

\* a constructor returns (nil, err)
Fail(fn, projectID, logID, client, err) ==
    /\ built' = [fn |-> fn, projectID |-> projectID, logID |-> logID, client |-> client,
                 logger |-> 0, err |-> err, cores0 |-> Len(cores), cores1 |-> Len(cores)]
    /\ UNCHANGED <<cores, heap, sinkLog, sinkFlush, call, nCalls, syncs, hist, writes,
                   teeVars, trace, traceOut, visited>>

\* the body of New, called as fn: cfg builds a core enabled at levels, or fails
\* with cfgErr; the logger returned is known by its cloud Core
NewBody(fn, projectID, levels, cfgErr, client, logID) ==
    IF cfgErr # NoError THEN Fail(fn, projectID, logID, client, cfgErr)
    ELSE IF client = NilClient
    THEN Fail(fn, projectID, logID, client, <<"The provided GCL client is nil">>)
    ELSE /\ Tee(levels)
         /\ built' = [fn |-> fn, projectID |-> projectID, logID |-> logID,
                      client |-> client, logger |-> tee'.gc, err |-> NoError,
                      cores0 |-> Len(cores), cores1 |-> Len(cores')]
         /\ UNCHANGED <<trace, traceOut, visited>>

New(levels, cfgErr, client, logID) == NewBody("New", "", levels, cfgErr, client, logID)

\* NewDevelopment and NewProduction, which differ in the configuration they build
NewFrom(fn, levels, projectID, logID, made, cfgErr) ==
    IF logID = "" THEN Fail(fn, projectID, logID, NilClient, <<"the provided logID is empty">>)
    ELSE LET r == newClient(projectID, made)
         IN IF r.err # NoError
            THEN Fail(fn, projectID, logID, r.client,
                      newError("creating Google Logging client: %v", r.err))
            ELSE NewBody(fn, projectID, levels, cfgErr, r.client, logID)

NewDevelopment(projectID, logID, made, cfgErr) ==
    NewFrom("NewDevelopment", {l \in Levels : l >= DebugLevel}, projectID, logID, made,
            cfgErr)

NewProduction(projectID, logID, made, cfgErr) ==
    NewFrom("NewProduction", {l \in Levels : l >= InfoLevel}, projectID, logID, made,
            cfgErr)

\* ----------------------------------------- go-logger: the request's trace
\* TraceLoggerMiddleware serves a request whose X-Cloud-Trace-Context is header
TraceLoggerMiddleware(header) ==
    /\ trace' = IF Len(header) > 0
                THEN LET d == deconstructXCloudTraceContext(header)
                     IN [set |-> TRUE, header |-> header, TraceID |-> d.TraceID,
                         SpanID |-> d.SpanID, Sampled |-> d.Sampled]
                ELSE [set |-> FALSE, header |-> header, TraceID |-> <<>>,
                      SpanID |-> <<>>, Sampled |-> FALSE]
    /\ UNCHANGED <<cores, heap, sinkLog, sinkFlush, call, nCalls, syncs, hist, writes,
                   teeVars, traceOut, visited, built>>

\* the handler calls TraceContext(ctx); GOOGLE_CLOUD_PROJECT is project
TraceContext(project) ==
    /\ traceOut' = [header |-> trace.header, project |-> project,
                    fields |-> TraceContextFields(trace, project)]
    /\ UNCHANGED <<cores, heap, sinkLog, sinkFlush, call, nCalls, syncs, hist, writes,
                   teeVars, trace, visited, built>>

\* ------------------------------------------------------- the inputs
\* zap.String(key, x)
String(key, x) == Field(key, "StringType", Int64Of(0), x, NilValue)
\* zap.Int64(key, x)
Int64(key, x) == Field(key, "Int64Type", Int64Of(x), "", NilValue)
\* zap.Bool(key, b)
Bool(key, b) == Field(key, "BoolType", Int64Of(IF b THEN 1 ELSE 0), "", NilValue)
\* zapcore.Field{Key: key, Interface: v}, as the tests build fields (Type is UnknownType)
Iface(key, v) == Field(key, "UnknownType", Int64Of(0), "", v)
\* zap.Reflect(key, v)
Reflect(key, v) == Field(key, "ReflectType", Int64Of(0), "", v)
\* zap.Skip(), under a key
Skip(key) == Field(key, "SkipType", Int64Of(0), "", NilValue)

\* the field lists given to With
WithFieldLists ==
    { <<String(KeyUser, "alice"), String(KeyLabelsEnv, "prod")>>,
      <<String(KeyUser, "bob"), Skip(KeyI)>>,
      <<Iface(KeyMessage, StringValue("ctx")), String(InsertIDKey, "ctx-id")>>,
      <<Bool(KeyLabelsTier, TRUE)>>,
      <<Skip(KeyUser), Int64(KeyI, 1), Int64(KeyI, 2)>> }

\* the context field lists of the Cores that are written to
ContextFieldLists ==
    { <<String(KeyUser, "alice"), String(KeyLabelsEnv, "prod"),
        Iface(KeyMessage, StringValue("ctx"))>>,
      <<Bool(KeyLabelsTier, TRUE)>> }

\* the entries given to Write
EntryHello == Entry(WarnLevel, "hello", "", "test", 1, 0)
EntryBoom == Entry(ErrorLevel, "boom", "trace", "", 2, 42)

\* the (entry, call-site fields) pairs given to Write
WriteInputs ==
    { <<EntryHello, <<String(KeyLabelsEnv, "prod"),
                      Iface(KeyLabelsTier, StringValue("backend")),
                      String(KeyUser, "alice")>> >>,
      <<EntryBoom, <<Int64(KeyLabelsEnv, 7), String(KeyHTTPRequest, "GET /")>> >>,
      <<EntryBoom, <<String(InsertIDKey, "id-1"), Iface(KeyMessage, StringValue("mine")),
                     String(KeyLabels, "plain")>> >>,
      <<EntryHello, <<String(InsertIDKey, ""), Int64(KeyStack, 3), Skip(KeyUser)>> >>,
      <<EntryBoom, <<Reflect(KeyHTTPRequest, HTTPPayloadValue("GET", 200)),
                     Int64(InsertIDKey, 5)>> >> }

\* the field maps a root Core is built with (nil, or as BenchmarkCoreWrite sets them)
RootFields ==
    { EmptyMap,
      [k \in {KeyUser, KeyStack} |->
          IF k = KeyUser THEN StringValue("root") ELSE StringValue("ctx-stack")] }

\* ---------------------------------------------------------------- Init
\* no request served, no TraceContext call, no Write call, no constructor call yet
NoTrace ==
    [set |-> FALSE, header |-> <<>>, TraceID |-> <<>>, SpanID |-> <<>>, Sampled |-> FALSE]
NoBuilt ==
    [fn |-> "", projectID |-> "", logID |-> "", client |-> FALSE, logger |-> 0,
     err |-> NoError, cores0 |-> 0, cores1 |-> 0]
InitAux ==
    /\ trace = NoTrace
    /\ traceOut = [header |-> <<>>, project |-> <<>>, fields |-> <<>>]
    /\ visited = <<>>
    /\ built = NoBuilt

\* one root Core over the sink, with fields nil or set, not yet used
InitWith(roots, mappings, minLevels) ==
    /\ \E m \in roots, sm \in mappings, ml \in minLevels :
          /\ heap = IF m = EmptyMap THEN <<>> ELSE <<m>>
          /\ cores = <<Core("gcl", sm, ml, IF m = EmptyMap THEN NilRef ELSE 1)>>
          /\ hist = <<[parent |-> 0, added |-> <<>>, fields0 |-> m,
                       mapping0 |-> sm, minLevel0 |-> ml]>>
    /\ sinkLog = [l \in LoggerIds |-> <<>>]
    /\ sinkFlush = [l \in LoggerIds |-> 0]
    /\ call = [w \in Writers |-> IdleCall]
    /\ nCalls = 0
    /\ syncs = <<>>
    /\ writes = <<>>
    /\ tee = NoTee
    /\ zcOut = <<>>
    /\ checked = [core |-> 0, ze |-> NoEntry, ce |-> <<>>]
    /\ InitAux

Init == InitWith({EmptyMap}, {DefaultSeverityMapping}, {InfoLevel})

\* caller w is not inside a Write call
NotInWrite(w) == call[w].pc \in {"idle", "returned"}

\* the steps of the Write call that caller w is in
WriteSteps(w) ==
    \/ \E k \in DOMAIN Deref(heap, call[w].payload) : WriteRange(w, k)
    \/ WriteLog(w)
    \/ WriteReturn(w)

\* one caller derives Cores and writes to them, in any order
Next ==
    \/ \E c \in 1..MaxWriteCores, nf \in ContextFieldLists :
          Len(cores) < MaxWriteCores /\ NotInWrite(1) /\ With(c, nf)
    \/ \E c \in 1..MaxWriteCores, in \in WriteInputs : WriteCall(1, c, in[1], in[2])
    \/ WriteSteps(1)

Spec == Init /\ [][Next]_vars

\* one caller derives Cores from Cores
NextWith == \E c \in 1..MaxCores, nf \in WithFieldLists : With(c, nf)

InitRoots == InitWith(RootFields, {DefaultSeverityMapping}, {InfoLevel})

SpecWith == InitRoots /\ [][NextWith]_vars

\* the levels Write is given: zapcore's seven and one on each side of them
AnyLevels == (DebugLevel - 1)..(FatalLevel + 1)

\* the entries and field lists of the writes that exercise the severity mapping
LevelEntries == {Entry(l, "hello", "", "", 1, 0) : l \in AnyLevels}
LevelFieldLists == { <<String(KeyUser, "alice")>>, <<Int64(KeyLabelsEnv, 7)>> }

InitSeverity ==
    InitWith({EmptyMap},
             {DefaultSeverityMapping, NilSeverityMapping, CustomSeverityMapping},
             {InfoLevel})

\* one caller writes entries of every level to a Core with any of the tables
NextSeverity ==
    \/ \E ze \in LevelEntries, nf \in LevelFieldLists : WriteCall(1, 1, ze, nf)
    \/ WriteSteps(1)

SpecSeverity == InitSeverity /\ [][NextSeverity]_vars

\* the inputs of the writes made between Sync calls
SyncWriteInputs ==
    { <<EntryHello, <<String(KeyUser, "alice")>> >>,
      <<EntryBoom, <<String(KeyLabelsEnv, "prod")>> >> }

\* what the Logger's Flush returns: nil, or the transport's error
FlushErrors == {NoError, <<"rpc error">>}

\* one caller writes and syncs
NextSync ==
    \/ \E in \in SyncWriteInputs : WriteCall(1, 1, in[1], in[2])
    \/ WriteSteps(1)
    \/ \E err \in FlushErrors : NotInWrite(1) /\ Sync(1, err)

SpecSync == Init /\ [][NextSync]_vars

\* the sequence-number field of TestConcurrentCoreWrite's goroutine w
SeqField(w) == Iface(KeyI, IntValue(w))

\* N callers, each in one Write on the shared root Core, tagged with its number
NextConc ==
    \/ \E w \in Writers, tail \in {<<>>, <<String(KeyLabelsEnv, "prod")>>} :
          call[w].pc = "idle" /\ WriteCall(w, 1, NoEntry, tail \o <<SeqField(w)>>)
    \/ \E w \in Writers : WriteSteps(w)

SpecConc == InitRoots /\ [][NextConc]_vars

\* the level sets of the wrapped core: enabled from a level up, at no level, or as
\* a LevelEnablerFunc picks
ZcLevelSets ==
    {{l \in Levels : l >= t} : t \in DebugLevel..(FatalLevel + 1)}
        \cup {{DebugLevel, ErrorLevel}}

TeeEntries == {Entry(l, "hello", "", "", 1, 0) : l \in Levels}

InitTee == InitWith({EmptyMap}, {DefaultSeverityMapping}, {DebugLevel, WarnLevel})

\* a composite is built, by Tee or over the root Core, and entries are logged
NextTee ==
    \/ \E levels \in ZcLevelSets : TeeCall(levels)
    \/ \E levels \in ZcLevelSets : NewTee(levels, 1)
    \/ \E ze \in TeeEntries : TeeLog(1, ze, <<String(KeyUser, "alice")>>)
    \/ WriteSteps(1)

SpecTee == InitTee /\ [][NextTee]_vars

\* ---------------------------------------------- fields of every number kind
\* a number as it is written down: its sign and its magnitude (eight bytes)
Number(neg, mag) == [neg |-> neg, mag |-> mag]

\* int64(v), as zap's constructors store a number in Field.Integer
Int64OfNumber(v) == IF v.neg THEN Negate(v.mag) ELSE v.mag

\* zap.Int8(key, v), zap.Uint32(key, v), ...: the field of integer type `type`
NumberField(key, type, v) == Field(key, type, Int64OfNumber(v), "", NilValue)

\* zap.Float64(key, val): Integer holds math.Float64bits(val); val by its IEEE bytes
Float64(key, val) == Field(key, "Float64Type", val, "", NilValue)
\* zap.Float32(key, val): Integer holds math.Float32bits(val), widened
Float32(key, val) == Field(key, "Float32Type", Pad8(val), "", NilValue)
\* zap.Namespace(key)
Namespace(key) == Field(key, "NamespaceType", Int64Of(0), "", NilValue)

\* the integer field types: the Go type clone converts to, its bytes, its signedness
IntegerKinds ==
    { [Type |-> "Int8Type", t |-> "int8", w |-> 1, signed |-> TRUE],
      [Type |-> "Int16Type", t |-> "int16", w |-> 2, signed |-> TRUE],
      [Type |-> "Int32Type", t |-> "int32", w |-> 4, signed |-> TRUE],
      [Type |-> "Int64Type", t |-> "int64", w |-> 8, signed |-> TRUE],
      [Type |-> "Uint8Type", t |-> "uint8", w |-> 1, signed |-> FALSE],
      [Type |-> "Uint16Type", t |-> "uint16", w |-> 2, signed |-> FALSE],
      [Type |-> "Uint32Type", t |-> "uint32", w |-> 4, signed |-> FALSE],
      [Type |-> "Uint64Type", t |-> "uint64", w |-> 8, signed |-> FALSE],
      [Type |-> "UintptrType", t |-> "uintptr", w |-> 8, signed |-> FALSE] }

\* numbers in the range of a kind: its least and greatest, and those around zero
\* and the sign bit
InRange(k) ==
    LET high == Pad8(<<128>> \o Zeros(k.w - 1))
        ones == [i \in 1..(k.w - 1) |-> 255]
    IN IF k.signed
       THEN { Number(TRUE, high), Number(TRUE, Int64Of(1)), Number(FALSE, Int64Of(0)),
              Number(FALSE, Int64Of(1)), Number(FALSE, Pad8(<<127>> \o ones)) }
       ELSE { Number(FALSE, Int64Of(0)), Number(FALSE, Int64Of(1)), Number(FALSE, high),
              Number(FALSE, Pad8(<<255>> \o ones)) }

\* the floats that are logged, by their IEEE bytes: 0, 1, -2, 0.1, -0 and 0, 1, -1.5
Float64s ==
    { Zeros(8), <<63, 240, 0, 0, 0, 0, 0, 0>>, <<192, 0, 0, 0, 0, 0, 0, 0>>,
      <<63, 185, 153, 153, 153, 153, 153, 154>>, <<128, 0, 0, 0, 0, 0, 0, 0>> }
Float32s == { Zeros(4), <<63, 128, 0, 0>>, <<191, 192, 0, 0>> }

KindFieldLists ==
    { <<NumberField(KeyI, kv[1].Type, kv[2])>> :
         kv \in UNION {{<<k, v>> : v \in InRange(k)} : k \in IntegerKinds} }
      \cup { <<Float64(KeyI, val)>> : val \in Float64s }
      \cup { <<Float32(KeyI, val)>> : val \in Float32s }

\* Cores are derived from the root with one number field each
NextKinds == \E nf \in KindFieldLists : With(1, nf)

SpecKinds == Init /\ [][NextKinds]_vars

\* ------------------------------------- fields of a type clone has no case for
UnknownContextLists ==
    { <<Iface(KeyUser, IntValue(7))>>,
      <<Namespace(KeyI), Iface(KeyMessage, StringValue("ctx"))>> }

UnknownWriteInputs ==
    { <<EntryHello, <<Iface(KeyUser, NilValue), Iface(KeyI, IntValue(1))>> >>,
      <<EntryBoom, <<Iface(KeyMessage, StringValue("mine")), Iface(KeyStack, IntValue(3))>> >>,
      <<EntryHello, <<Iface(KeyLabelsEnv, StringValue("prod")), Iface(KeyI, IntValue(1)),
                      String(KeyI, "later")>> >>,
      <<EntryHello, <<Iface(KeyLabelsEnv, IntValue(7))>> >> }

\* one caller derives Cores and writes to them, with fields of unknown type
NextUnknown ==
    \/ \E c \in 1..MaxWriteCores, nf \in UnknownContextLists :
          Len(cores) < MaxWriteCores /\ NotInWrite(1) /\ With(c, nf)
    \/ \E c \in 1..MaxWriteCores, in \in UnknownWriteInputs : WriteCall(1, c, in[1], in[2])
    \/ WriteSteps(1)

SpecUnknown == Init /\ [][NextUnknown]_vars

\* ------------------------------------------------- trace headers
\* the parts of a header TRACE_ID[/SPAN_ID][;o=TRACE_SAMPLED]; <<>> is an absent part
ExampleTraceID ==
    <<"1", "0", "5", "4", "4", "5", "a", "a", "7", "8", "4", "3", "b", "c", "8",
      "b", "f", "2", "0", "6", "b", "1", "2", "0", "0", "0", "1", "0", "0", "0">>
TraceIDs == {ExampleTraceID, <<"a", "b", "c">>, <<"0">>}
SpanIDs == {<<>>, <<"0">>, <<"1", "2">>, <<"0", "0", "7">>}
SampledFlags == {<<>>, <<"0">>, <<"1">>, <<"7">>}

HeaderOf(id, span, o) ==
    id \o (IF span = <<>> THEN <<>> ELSE <<"/">> \o span)
       \o (IF o = <<>> THEN <<>> ELSE <<";", "o", "=">> \o o)

\* headers that are not of that form: none, upper-case digits, a slash without a
\* span, no trace id
OtherHeaders ==
    { <<>>, <<"A", "B", "C", "/", "1", ";", "o", "=", "1">>,
      <<"a", "b", "c", "/", ";", "o", "=", "1">>, <<"/", "5", ";", "o", "=", "1">> }

Headers ==
    {HeaderOf(id, span, o) : id \in TraceIDs, span \in SpanIDs, o \in SampledFlags}
        \cup OtherHeaders

MyProject == <<"m", "y", "-", "p", "r", "o", "j", "e", "c", "t">>
Projects == {MyProject, <<>>}

\* requests are served and their handlers ask for the trace fields
NextTrace ==
    \/ \E header \in Headers : TraceLoggerMiddleware(header)
    \/ \E project \in Projects : TraceContext(project)

SpecTrace == Init /\ [][NextTrace]_vars

\* ------------------------------------------------- concurrent With calls
\* the fields caller w derives with: siblings add different keys
SiblingFields(w) ==
    IF w % 2 = 1 THEN <<Iface(KeyI, IntValue(w)), String(KeyUser, "child")>>
    ELSE <<String(KeyLabelsTier, "backend"), Int64(KeyI, w)>>

\* the parent's fields
ParentFields == [k \in {KeyUser} |-> StringValue("root")]

InitDerive == InitWith({ParentFields}, {DefaultSeverityMapping}, {InfoLevel})

\* each caller derives once from the root Core, all at once, and then writes to
\* the root while others are deriving
NextDerive ==
    \/ \E w \in Writers : call[w].pc = "idle" /\ WithBegin(w, 1, SiblingFields(w))
    \/ \E w \in Writers : \E k \in call[w].todo : WithCopy(w, k)
    \/ \E w \in Writers : WithFields(w)
    \/ \E w \in Writers : WithReturn(w)
    \/ \E w \in Writers :
          Deriving # {} /\ WriteCall(w, 1, NoEntry, <<SeqField(w)>>)
    \/ \E w \in Writers : WriteSteps(w)

SpecDerive == InitDerive /\ [][NextDerive]_vars

\* writes whose payload holds labels, an httpRequest and an insert id
OrderInputs ==
    { <<EntryHello, <<String(KeyLabelsEnv, "prod"), String(KeyLabelsTier, "web"),
                      Reflect(KeyHTTPRequest, HTTPPayloadValue("GET", 200))>> >>,
      <<EntryHello, <<String(KeyLabelsEnv, "dev"), String(InsertIDKey, "id-1")>> >> }

\* one caller writes to the root Core; the range loop takes the keys in any order
NextOrder ==
    \/ \E in \in OrderInputs : WriteCallTraced(1, 1, in[1], in[2])
    \/ \E k \in DOMAIN Deref(heap, call[1].payload) : WriteRangeTraced(1, k)
    \/ WriteLog(1)
    \/ WriteReturn(1)

SpecOrder == Init /\ [][NextOrder]_vars

\* ------------------------------------------------- constructor calls
ProjectIDs == {"", "my-project"}
LogIDs == {"", "my-log"}
\* what gcl.NewClient returns: a client, or an error
MadeClients ==
    { [client |-> AClient, err |-> NoError],
      [client |-> NilClient, err |-> <<"dialing: no credentials">>] }
\* what cfg.Build returns besides the logger: nil, or an error
BuildErrors == {NoError, <<"couldn't open sink">>}
\* the levels a configuration's core is enabled at
ConfigLevelSets == {{l \in Levels : l >= t} : t \in {DebugLevel, InfoLevel, WarnLevel}}
BuiltEntries == {Entry(l, "hello", "", "", 1, 0) : l \in {DebugLevel, ErrorLevel}}

\* loggers are constructed and the one that was built is logged through
NextBuild ==
    \/ \E projectID \in ProjectIDs, logID \in LogIDs, made \in MadeClients,
          cfgErr \in BuildErrors : NewDevelopment(projectID, logID, made, cfgErr)
    \/ \E projectID \in ProjectIDs, logID \in LogIDs, made \in MadeClients,
          cfgErr \in BuildErrors : NewProduction(projectID, logID, made, cfgErr)
    \/ \E levels \in ConfigLevelSets, cfgErr \in BuildErrors,
          client \in {NilClient, AClient}, logID \in LogIDs :
          New(levels, cfgErr, client, logID)
    \/ \E ze \in BuiltEntries : TeeLog(1, ze, <<String(KeyUser, "alice")>>)
    \/ WriteSteps(1)

SpecBuild == Init /\ [][NextBuild]_vars

\* the root Cores of the level checks: any sink, table and MinLevel
InitLevels ==
    /\ \E lg \in LoggerIds, sm \in {DefaultSeverityMapping, CustomSeverityMapping},
          ml \in Levels :
          /\ cores = <<Core(lg, sm, ml, NilRef)>>
          /\ hist = <<[parent |-> 0, added |-> <<>>, fields0 |-> EmptyMap,
                       mapping0 |-> sm, minLevel0 |-> ml]>>
    /\ heap = <<>>
    /\ sinkLog = [l \in LoggerIds |-> <<>>]
    /\ sinkFlush = [l \in LoggerIds |-> 0]
    /\ call = [w \in Writers |-> IdleCall]
    /\ nCalls = 0
    /\ syncs = <<>>
    /\ writes = <<>>
    /\ tee = NoTee
    /\ zcOut = <<>>
    /\ checked = [core |-> 0, ze |-> NoEntry, ce |-> <<>>]
    /\ InitAux

\* Cores are derived from Cores and entries of every level are checked against them
NextLevels ==
    \/ \E c \in 1..MaxCores, nf \in ContextFieldLists : With(c, nf)
    \/ \E c \in 1..MaxCores, ze \in TeeEntries : CheckCall(c, ze)

SpecLevels == InitLevels /\ [][NextLevels]_vars

\* =================================================================
\* Properties
\* =================================================================
FieldsOf(c) == Deref(heap, cores[c].fields)

\* every key that appears in a field list
KeysOf(F) == {F[i].Key : i \in DOMAIN F}
\* the keys of the fields that are not skip markers
StoredKeysOf(F) == {F[i].Key : i \in {j \in DOMAIN F : F[j].Type # "SkipType"}}
\* the value of the last field of F stored under key k
LastValueOf(F, k) ==
    LET hits == {i \in DOMAIN F : F[i].Key = k /\ F[i].Type # "SkipType"}
        last == CHOOSE i \in hits : \A j \in hits : j <= i
    IN Classify(F[last])

\* the chains P -> c2 -> c3 of two With calls
Chains ==
    {ch \in (1..Len(cores)) \X (1..Len(cores)) \X (1..Len(cores)) :
        hist[ch[3]].parent = ch[2] /\ hist[ch[2]].parent = ch[1]}

\* C1 as amended: after c2 = P.With(F1) and c3 = c2.With(F2), c3 holds every key of
\* P not overridden, every key F1 stores not overridden by F2 and every key F2
\* stores (a skip field stores nothing), later fields winning; P's fields are what
\* they were when P was built and c2's are exactly P's plus what F1 stores.
C1_DeriveNeverMutatesParent ==
    \A ch \in Chains :
        LET fP == FieldsOf(ch[1])
            f2 == FieldsOf(ch[2])
            f3 == FieldsOf(ch[3])
            F1 == hist[ch[2]].added
            F2 == hist[ch[3]].added
        IN /\ DOMAIN f3 = (DOMAIN fP) \cup StoredKeysOf(F1) \cup StoredKeysOf(F2)
           /\ \A k \in StoredKeysOf(F2) : f3[k] = LastValueOf(F2, k)
           /\ \A k \in StoredKeysOf(F1) \ StoredKeysOf(F2) : f3[k] = LastValueOf(F1, k)
           /\ \A k \in (DOMAIN fP) \ (StoredKeysOf(F1) \cup StoredKeysOf(F2)) :
                 f3[k] = fP[k]
           /\ fP = hist[ch[1]].fields0
           /\ DOMAIN f2 = (DOMAIN fP) \cup StoredKeysOf(F1)
           /\ \A k \in StoredKeysOf(F1) : f2[k] = LastValueOf(F1, k)
           /\ \A k \in (DOMAIN fP) \ StoredKeysOf(F1) : f2[k] = fP[k]

\* C1 witness: a chain whose F1 overrides a key of P and whose F2 adds a key
C1_Witness ==
    \E ch \in Chains :
        /\ StoredKeysOf(hist[ch[2]].added) \cap DOMAIN FieldsOf(ch[1]) # {}
        /\ StoredKeysOf(hist[ch[3]].added) \ DOMAIN FieldsOf(ch[2]) # {}
        /\ DOMAIN FieldsOf(ch[1]) \ KeysOf(hist[ch[2]].added \o hist[ch[3]].added) # {}

\* C1 as stated: every key of F1 and of F2, skip fields included, is in c3
C1_Original ==
    \A ch \in Chains :
        LET fP == FieldsOf(ch[1])
            f2 == FieldsOf(ch[2])
            f3 == FieldsOf(ch[3])
            F1 == hist[ch[2]].added
            F2 == hist[ch[3]].added
        IN /\ (DOMAIN fP) \ (KeysOf(F1) \cup KeysOf(F2)) \subseteq DOMAIN f3
           /\ KeysOf(F1) \ KeysOf(F2) \subseteq DOMAIN f3
           /\ KeysOf(F2) \subseteq DOMAIN f3
           /\ fP = hist[ch[1]].fields0
           /\ DOMAIN f2 = (DOMAIN fP) \cup KeysOf(F1)

\* ------------------------------------------------ the records delivered
\* the payload map a delivered record holds
PayloadOf(wr) == Deref(heap, wr.entry.Payload)
\* the context fields of the Core a record was written to, as the Core was built
ContextOf(wr) == hist[wr.core].fields0

IsLabelKey(k) == HasPrefix(k, LabelsPrefix)
\* the keys Write moves out of the payload
IsExtractedKey(k) == IsLabelKey(k) \/ k = KeyHTTPRequest \/ k = InsertIDKey

\* context fields overridden by the call-site fields, then the entry's stack (when
\* not empty) and message
MergedPayload(ctx, newFields, ze) ==
    LET dom == (DOMAIN ctx) \cup StoredKeysOf(newFields) \cup {KeyMessage}
                 \cup (IF ze.Stack # "" THEN {KeyStack} ELSE {})
    IN [k \in dom |->
          IF k = KeyMessage THEN StringValue(ze.Message)
          ELSE IF k = KeyStack /\ ze.Stack # "" THEN StringValue(ze.Stack)
          ELSE IF k \in StoredKeysOf(newFields) THEN LastValueOf(newFields, k)
          ELSE ctx[k]]

MergedOf(wr) == MergedPayload(ContextOf(wr), wr.newFields, wr.ze)

\* the sink holds exactly the records of the Log calls, in their order
Delivered(logger) ==
    LET idx == {i \in DOMAIN writes : cores[writes[i].core].Logger = logger}
    IN /\ Len(sinkLog[logger]) = Cardinality(idx)
       /\ \A i \in idx :
             sinkLog[logger][Cardinality({j \in idx : j <= i})] = writes[i].entry

\* C3: Write leaves the core unchanged: every Core's fields, severity mapping and
\* MinLevel are what they were when it was built, whatever was written, and every
\* key of a delivered payload comes from the Core's context, the call's own fields
\* or the entry (message, stack): never from an earlier call.
C3_WriteLeavesCoreUnchanged ==
    /\ \A c \in DOMAIN cores :
          /\ FieldsOf(c) = hist[c].fields0
          /\ cores[c].SeverityMapping = hist[c].mapping0
          /\ cores[c].MinLevel = hist[c].minLevel0
    /\ \A i \in DOMAIN writes :
          \A k \in DOMAIN PayloadOf(writes[i]) :
             \/ k \in StoredKeysOf(writes[i].newFields) \cup {KeyMessage, KeyStack}
             \/ k \in DOMAIN ContextOf(writes[i])
                  /\ PayloadOf(writes[i])[k] = ContextOf(writes[i])[k]

\* C3 witness: two Writes on one Core with context fields, the first with call-site
\* keys (extracted and kept) that the second does not carry
C3_Witness ==
    \E i, j \in DOMAIN writes :
        /\ i < j
        /\ writes[i].core = writes[j].core
        /\ DOMAIN ContextOf(writes[i]) # {}
        /\ \E k \in StoredKeysOf(writes[i].newFields) :
              ~IsExtractedKey(k) /\ k \notin DOMAIN PayloadOf(writes[j])
        /\ \E k \in KeysOf(writes[i].newFields) : IsExtractedKey(k)

\* C4 as amended: the delivered payload is the context fields overridden by the
\* call-site fields, with the message under "message" and the entry's stack under
\* "stack" exactly when it is not empty, less the keys Write extracts (labels.*,
\* httpRequest, the insert id).
C4_PayloadIsContextThenCallSite ==
    \A i \in DOMAIN writes :
        LET m == MergedOf(writes[i])
            p == PayloadOf(writes[i])
        IN /\ DOMAIN p = {k \in DOMAIN m : ~IsExtractedKey(k)}
           /\ \A k \in DOMAIN p : p[k] = m[k]
           /\ p[KeyMessage] = StringValue(writes[i].ze.Message)
           /\ writes[i].ze.Stack # "" => p[KeyStack] = StringValue(writes[i].ze.Stack)
           /\ writes[i].ze.Stack = "" =>
                 (KeyStack \in DOMAIN p <=>
                    KeyStack \in StoredKeysOf(writes[i].newFields)
                                   \cup DOMAIN ContextOf(writes[i]))

\* C4 witness: a record whose context and call-site fields collide on a key, with
\* a field named message among them and an entry that has a stack
C4_Witness ==
    \E i \in DOMAIN writes :
        /\ StoredKeysOf(writes[i].newFields) \cap DOMAIN ContextOf(writes[i]) # {}
        /\ KeyMessage \in StoredKeysOf(writes[i].newFields)
        /\ writes[i].ze.Stack # ""

\* C4 as stated: the delivered payload is all of the merged map
C4_Original ==
    \A i \in DOMAIN writes : PayloadOf(writes[i]) = MergedOf(writes[i])

\* C5: label extraction: the record's labels hold exactly one entry per labels.*
\* key of the merged payload, under the text after the prefix and with the field's
\* string; no labels.* key stays in the payload; the keys that are not extracted
\* stay, with their values.
C5_LabelExtraction ==
    \A i \in DOMAIN writes :
        LET m == MergedOf(writes[i])
            p == PayloadOf(writes[i])
            labels == writes[i].entry.Labels
            keys == {k \in DOMAIN m : IsLabelKey(k)}
        IN /\ \A k \in keys :
                 /\ m[k].t = "string"
                 /\ \E name \in DOMAIN labels :
                       LabelsPrefix \o name = k /\ labels[name] = m[k].s
           /\ \A name \in DOMAIN labels : LabelsPrefix \o name \in keys
           /\ Cardinality(DOMAIN labels) = Cardinality(keys)
           /\ \A k \in DOMAIN p : ~IsLabelKey(k)
           /\ \A k \in DOMAIN m : ~IsExtractedKey(k) => k \in DOMAIN p /\ p[k] = m[k]

\* C5 witness: the spec's scenario, labels.env and labels.tier beside user
C5_Witness ==
    \E i \in DOMAIN writes :
        /\ {KeyLabelsEnv, KeyLabelsTier, KeyUser} \subseteq DOMAIN MergedOf(writes[i])
        /\ KeyUser \in DOMAIN PayloadOf(writes[i])
        /\ writes[i].entry.Labels[<<"e","n","v">>] = "prod"

\* whether the Write call that caller w is in was given a label that is no string
HasBadLabel(w) ==
    /\ call[w].pc # "idle"
    /\ LET m == MergedPayload(hist[call[w].core].fields0, call[w].newFields, call[w].ze)
       IN \E k \in DOMAIN m : IsLabelKey(k) /\ m[k].t # "string"

\* C6 as stated: a Write given a labels.* key whose value is not a string does not
\* crash its caller: it ends by returning one error.
C6_BadLabelReturnsError ==
    \A w \in Writers :
        HasBadLabel(w) =>
            /\ call[w].pc # "panicked"
            /\ call[w].pc = "returned" => call[w].result # NoError

\* whether the Write call that caller w is in was given an httpRequest that is no
\* HTTP payload
HasBadHTTPRequest(w) ==
    /\ call[w].pc # "idle"
    /\ LET m == MergedPayload(hist[call[w].core].fields0, call[w].newFields, call[w].ze)
       IN KeyHTTPRequest \in DOMAIN m /\ m[KeyHTTPRequest].t # "*zapdriver.HTTPPayload"

\* C10: insert-id extraction: a non-empty string under the insert-id key becomes
\* the record's InsertID; an empty string leaves it unset and the Write succeeds
\* (no insert-id value makes Write panic, and a Write that returns has delivered
\* its record and returns nil); the key is never in the delivered payload.
C10_InsertIDExtraction ==
    /\ \A i \in DOMAIN writes :
          LET m == MergedOf(writes[i])
          IN /\ InsertIDKey \notin DOMAIN PayloadOf(writes[i])
             /\ (InsertIDKey \in DOMAIN m /\ m[InsertIDKey].t = "string"
                    /\ m[InsertIDKey].s # "")
                   => writes[i].entry.InsertID = m[InsertIDKey].s
             /\ (InsertIDKey \in DOMAIN m /\ m[InsertIDKey] = StringValue(""))
                   => writes[i].entry.InsertID = ""
    /\ \A w \in Writers :
          call[w].pc = "panicked" => HasBadLabel(w) \/ HasBadHTTPRequest(w)
    /\ \A w \in Writers :
          (call[w].pc = "returned" /\ InsertIDKey \in KeysOf(call[w].newFields))
             => /\ call[w].result = NoError
                /\ \E i \in DOMAIN writes : writes[i].entry = call[w].entry

\* C10 witness: records written with a non-empty and with an empty insert id, the
\* second by a Write that has returned
C10_Witness ==
    /\ \E i \in DOMAIN writes :
          /\ InsertIDKey \in DOMAIN MergedOf(writes[i])
          /\ writes[i].entry.InsertID = "id-1"
    /\ \E w \in Writers :
          /\ call[w].pc = "returned"
          /\ InsertIDKey \in DOMAIN MergedPayload(hist[call[w].core].fields0,
                                                   call[w].newFields, call[w].ze)
          /\ call[w].entry.InsertID = ""

\* the severity the documentation gives for each level of the default table
DocumentedSeverity(l) ==
    CASE l = DebugLevel -> "Debug"
      [] l = InfoLevel -> "Info"
      [] l = WarnLevel -> "Warning"
      [] l = ErrorLevel -> "Error"
      [] l = DPanicLevel -> "Critical"
      [] l = PanicLevel -> "Critical"
      [] l = FatalLevel -> "Critical"

\* C7: severity mapping is total and never fails a write: a record written through
\* the default table carries the documented severity of its level, a record whose
\* level is absent from the Core's table (a nil table included) carries Default,
\* and a Write ends in a panic only for a mistyped extracted field, never for its
\* level: otherwise it delivers its record and returns nil.
C7_SeverityMappingTotal ==
    /\ \A i \in DOMAIN writes :
          LET table == hist[writes[i].core].mapping0
              l == writes[i].ze.Level
              sev == writes[i].entry.Severity
          IN /\ (table = DefaultSeverityMapping /\ l \in Levels)
                   => sev = DocumentedSeverity(l)
             /\ l \notin DOMAIN table => sev = "Default"
             /\ l \in DOMAIN table => sev = table[l]
    /\ \A w \in Writers :
          /\ call[w].pc = "panicked" => HasBadLabel(w) \/ HasBadHTTPRequest(w)
          /\ call[w].pc = "returned" =>
                /\ call[w].result = NoError
                /\ \E i \in DOMAIN writes :
                      /\ writes[i].entry = call[w].entry
                      /\ writes[i].ze = call[w].ze

\* C7 witness: on a Core with a nil table, two Writes have delivered their records
\* with the Default severity and the second has returned
C7_Witness ==
    /\ cores[1].SeverityMapping = NilSeverityMapping
    /\ Len(writes) = 2
    /\ call[1].pc = "returned"
    /\ call[1].ze.Level = FatalLevel
    /\ call[1].entry.Severity = "Default"
    /\ sinkLog["gcl"][2] = call[1].entry

\* C9 (state part): every Sync call made one Flush call and no other, and returned
\* nil when Flush did and the wrapped error when Flush failed.
SyncsFlushOnce ==
    /\ \A l \in LoggerIds :
          sinkFlush[l] = Cardinality({i \in DOMAIN syncs : cores[syncs[i].core].Logger = l})
    /\ \A i \in DOMAIN syncs :
          /\ syncs[i].err = NoError => syncs[i].result = NoError
          /\ syncs[i].err # NoError =>
                /\ syncs[i].result # NoError
                /\ syncs[i].result[1] = packageName
                /\ SubSeq(syncs[i].result, 3, Len(syncs[i].result)) = syncs[i].err
    /\ \A l \in LoggerIds : Delivered(l)

\* C9 (step part): a Sync call hands no record to Log and flushes its Logger once
SyncStepFlushes ==
    Len(syncs') > Len(syncs) =>
        /\ sinkLog' = sinkLog
        /\ writes' = writes
        /\ Len(syncs') = Len(syncs) + 1
        /\ LET l == cores[syncs'[Len(syncs')].core].Logger
           IN sinkFlush' = [sinkFlush EXCEPT ![l] = @ + 1]

\* C9: every Sync call invokes Flush exactly once and Log never, returns nil when
\* Flush succeeds and a wrapped error when it fails, and does not retry; so two
\* Sync calls with no Write between them both succeed on a healthy sink and
\* deliver nothing more.
C9_SyncFlushesOnce == []SyncsFlushOnce /\ [][SyncStepFlushes]_vars

\* C9 witness: after a Write, two Syncs in a row on the healthy sink, no record
\* added, and a Sync whose Flush failed
C9_Witness ==
    /\ \E i, j \in DOMAIN syncs :
          /\ j = i + 1
          /\ syncs[i].result = NoError
          /\ syncs[j].result = NoError
          /\ syncs[i].logged = 1
          /\ syncs[j].logged = 1
    /\ \E k \in DOMAIN syncs : syncs[k].err # NoError /\ syncs[k].result # NoError
    /\ Len(sinkLog["gcl"]) = 1
    /\ sinkFlush["gcl"] = 3

\* the callers whose Write call has handed its record to Log
Logged == {w \in Writers : call[w].pc \in {"return", "returned"}}
\* the sequence number in the i-th record of the sink
SeqOf(i) == Deref(heap, sinkLog["gcl"][i].Payload)[KeyI]

\* C2: N concurrent Writes on one shared Core, each tagged with its own sequence
\* number, hand the sink exactly one record per call that reached Log, each with
\* the sequence number of one such call and no two with the same; when all N have
\* returned the sink holds N records with the N numbers.
C2_ConcurrentWritesAllDelivered ==
    /\ Len(sinkLog["gcl"]) = Cardinality(Logged)
    /\ \A i \in DOMAIN sinkLog["gcl"] :
          /\ KeyI \in DOMAIN Deref(heap, sinkLog["gcl"][i].Payload)
          /\ \E w \in Logged : SeqOf(i) = IntValue(w)
          /\ \A j \in DOMAIN sinkLog["gcl"] : i # j => SeqOf(i) # SeqOf(j)
    /\ (\A w \in Writers : call[w].pc = "returned") =>
          /\ Len(sinkLog["gcl"]) = NumWriters
          /\ {SeqOf(i) : i \in DOMAIN sinkLog["gcl"]} = {IntValue(w) : w \in Writers}

\* C2 witness: all callers have returned, their Writes having overlapped on a Core
\* with context fields: the first record is not the first caller's
C2_Witness ==
    /\ \A w \in Writers : call[w].pc = "returned"
    /\ DOMAIN FieldsOf(1) # {}
    /\ SeqOf(1) # IntValue(1)

\* C8: a composite accepts an entry exactly when one of its children is enabled at
\* the entry's level, and hands it to every child enabled at that level and to no
\* other: the wrapped core when the level is one of its levels, the cloud Core when
\* the level is at least its MinLevel; so a composite of a core enabled from warn
\* and a Core enabled from debug delivers a debug entry.
C8_TeeEnabledIffAnyChild ==
    tee # NoTee =>
        /\ \A l \in Levels :
              TeeEnabled(l) <=> (l \in tee.zc \/ l >= cores[tee.gc].MinLevel)
        /\ \A ze \in TeeEntries :
              TeeCheck(ze) # <<>> <=>
                 (ze.Level \in tee.zc \/ ze.Level >= cores[tee.gc].MinLevel)
        /\ checked.ce # <<>> =>
              LET l == checked.ze.Level
                  on == {checked.ce[i] : i \in DOMAIN checked.ce}
              IN /\ ZcCore \in on <=> l \in tee.zc
                 /\ tee.gc \in on <=> l >= cores[tee.gc].MinLevel
                 /\ ZcCore \in on => zcOut[Len(zcOut)] = checked.ze
                 /\ tee.gc \in on => call[1].ze = checked.ze /\ call[1].core = tee.gc

\* C8 witness: a composite of a wrapped core enabled from warn and a Core enabled
\* from debug has delivered a debug entry to the Core, whose record is in the sink
C8_Witness ==
    /\ tee.zc = {l \in Levels : l >= WarnLevel}
    /\ tee.gc # 0
    /\ cores[tee.gc].MinLevel = DebugLevel
    /\ checked.ze.Level = DebugLevel
    /\ checked.ce = <<tee.gc>>
    /\ Len(sinkLog["gcl"]) = 1
    /\ writes[1].ze.Level = DebugLevel

\* the root Core that Core c was derived from, through its chain of With calls
RECURSIVE RootOf(_)
RootOf(c) == IF hist[c].parent = 0 THEN c ELSE RootOf(hist[c].parent)

\* C11: for every Core reached from a root by With calls, Enabled(l) holds exactly
\* when l is at least the root's MinLevel, and the Core has the root's sink and the
\* root's severity mapping; a Check call adds the Core to the checked entry exactly
\* when the entry's level is enabled.
C11_DerivedCoreKeepsLevelSinkMapping ==
    /\ \A c \in DOMAIN cores :
          LET r == RootOf(c)
          IN /\ \A l \in AnyLevels : Enabled(c, l) <=> l >= hist[r].minLevel0
             /\ cores[c].Logger = cores[r].Logger
             /\ cores[c].SeverityMapping = hist[r].mapping0
             /\ cores[r].MinLevel = hist[r].minLevel0
    /\ checked.core # 0 =>
          checked.ce = IF checked.ze.Level >= hist[RootOf(checked.core)].minLevel0
                       THEN <<checked.core>> ELSE <<>>

\* C11 witness: a Core two With calls away from a root enabled from warn, on the
\* second sink with the caller's own table, has refused an info entry
C11_Witness ==
    /\ checked.core # 0
    /\ hist[checked.core].parent # 0
    /\ hist[hist[checked.core].parent].parent # 0
    /\ cores[checked.core].MinLevel = WarnLevel
    /\ cores[checked.core].Logger = "audit"
    /\ cores[checked.core].SeverityMapping = CustomSeverityMapping
    /\ checked.ze.Level = InfoLevel
    /\ checked.ce = <<>>

\* a field of a type clone's switch has no case for
IsUnhandled(f) == f.Type \notin HandledTypes
\* no later field of F stores under the key of F[i]
LastOf(F, i) ==
    \A j \in DOMAIN F : j > i => F[j].Key # F[i].Key \/ F[j].Type = "SkipType"
\* the keys of a payload that Write stores itself for entry ze
IsOverwrittenKey(k, ze) == k = KeyMessage \/ (k = KeyStack /\ ze.Stack # "")

C13_FloatDecodedFromBits ==
    \A c \in DOMAIN cores :
        /\ \A val \in Float64s :
              hist[c].added = <<Float64(KeyI, val)>> =>
                 FieldsOf(c)[KeyI] = NumberValue("float64", val)
        /\ \A val \in Float32s :
              hist[c].added = <<Float32(KeyI, val)>> =>
                 FieldsOf(c)[KeyI] = NumberValue("float32", val)

\* the number a value of an integer kind stands for
NumberOf(x, signed) ==
    IF signed /\ x.b[1] >= 128 THEN Number(TRUE, Pad8(Negate(x.b)))
    ELSE Number(FALSE, Pad8(x.b))

\* C14: for every integer kind and every number v in its range, the value clone
\* stores for the field that carries v is of the kind's Go type and width and
\* stands for the same number v.
C14_IntegerKindsKeepValue ==
    \A c \in DOMAIN cores, k \in IntegerKinds :
        \A v \in InRange(k) :
            hist[c].added = <<NumberField(KeyI, k.Type, v)>> =>
               LET x == FieldsOf(c)[KeyI]
               IN /\ x.t = k.t
                  /\ Len(x.b) = k.w
                  /\ NumberOf(x, k.signed) = v

\* C14 witness: Cores derived with the greatest uint64 and with the least int8
C14_Witness ==
    /\ \E c \in DOMAIN cores :
          /\ hist[c].added =
                <<NumberField(KeyI, "Uint64Type", Number(FALSE, [i \in 1..8 |-> 255]))>>
          /\ FieldsOf(c)[KeyI] = NumberValue("uint64", [i \in 1..8 |-> 255])
    /\ \E c \in DOMAIN cores :
          /\ hist[c].added = <<NumberField(KeyI, "Int8Type", Number(TRUE, Int64Of(128)))>>
          /\ FieldsOf(c)[KeyI] = NumberValue("int8", <<128>>)

\* C15: for a header TRACE_ID[/SPAN_ID][;o=TRACE_SAMPLED] and project p, the fields
\* are the trace projects/<p>/traces/<TRACE_ID> under logging.googleapis.com/trace,
\* the span under logging.googleapis.com/spanId, empty for the span "0" and for no
\* span, and sampled, true exactly when the o flag is 1; the header
\* 105445aa7843bc8bf206b120001000/0;o=1 and my-project give that trace, an empty
\* span and sampled true.
C15_TraceFields ==
    /\ \A id \in TraceIDs, span \in SpanIDs, o \in SampledFlags :
          traceOut.header = HeaderOf(id, span, o) =>
             /\ Len(traceOut.fields) = 3
             /\ traceOut.fields[1].Key = traceKey
             /\ traceOut.fields[1].Type = "StringType"
             /\ traceOut.fields[1].String =
                   <<"p", "r", "o", "j", "e", "c", "t", "s", "/">> \o traceOut.project
                      \o <<"/", "t", "r", "a", "c", "e", "s", "/">> \o id
             /\ traceOut.fields[2].Key = spanKey
             /\ traceOut.fields[2].Type = "StringType"
             /\ traceOut.fields[2].String = (IF span = <<"0">> THEN <<>> ELSE span)
             /\ traceOut.fields[3].Key = traceSampledKey
             /\ traceOut.fields[3].Type = "BoolType"
             /\ Classify(traceOut.fields[3]) = BoolValue(o = <<"1">>)
    /\ (/\ traceOut.header = HeaderOf(ExampleTraceID, <<"0">>, <<"1">>)
        /\ traceOut.project = MyProject) =>
          /\ traceOut.fields[1].String =
                <<"p", "r", "o", "j", "e", "c", "t", "s", "/", "m", "y", "-",
                  "p", "r", "o", "j", "e", "c", "t", "/", "t", "r", "a", "c", "e", "s",
                  "/">> \o ExampleTraceID
          /\ traceOut.fields[2].String = <<>>
          /\ Classify(traceOut.fields[3]) = BoolValue(TRUE)

\* C15 witness: the fields of the example header and project have been produced
C15_Witness ==
    /\ traceOut.header = HeaderOf(ExampleTraceID, <<"0">>, <<"1">>)
    /\ Len(traceOut.header) = 36
    /\ traceOut.project = MyProject
    /\ Len(traceOut.fields) = 3
    /\ traceOut.fields[2].String = <<>>
    /\ traceOut.fields[3].Integer = Int64Of(1)

\* C16: construction fails at once on a missing identifier: NewDevelopment and
\* NewProduction with an empty logID or an empty projectID, and New with a nil
\* client, return an error and no logger and make no cloud Core; no constructor
\* returns both a logger and an error, or neither.
C16_ConstructionFailsOnMissingId ==
    built.fn # "" =>
        /\ (\/ /\ built.fn \in {"NewDevelopment", "NewProduction"}
                /\ (built.logID = "" \/ built.projectID = "")
             \/ /\ built.fn = "New"
                /\ built.client = NilClient) =>
              /\ built.err # NoError
              /\ built.logger = 0
              /\ built.cores1 = built.cores0
        /\ built.logger = 0 <=> built.err # NoError
        /\ built.logger # 0 =>
              /\ built.logger \in DOMAIN cores
              /\ tee.gc = built.logger
              /\ built.cores1 = built.cores0 + 1
        /\ Len(cores) = 1 + (IF tee = NoTee THEN 0 ELSE 1)

\* C16 witness: after a logger was built and logged through, NewProduction is
\* called with a project and an empty logID and fails, leaving the Cores as they were
C16_Witness ==
    /\ built.fn = "NewProduction"
    /\ built.projectID = "my-project"
    /\ built.logID = ""
    /\ built.err # NoError
    /\ built.logger = 0
    /\ tee # NoTee
    /\ Len(writes) = 1
    /\ Len(cores) = 2

\* C17: With calls on one parent Core, interleaved with each other and with Write
\* calls on that parent, never change the parent's fields, and every child's
\* fields are exactly the parent's fields with the call's own new fields stored
\* over them: no key of a sibling; nor does a record written to the parent hold a
\* key of a child.
C17_ConcurrentWithIsolated ==
    /\ FieldsOf(1) = hist[1].fields0
    /\ \A c \in DOMAIN cores :
          c # 1 =>
             LET f == FieldsOf(c)
                 F == hist[c].added
             IN /\ hist[c].parent = 1
                /\ DOMAIN f = (DOMAIN hist[1].fields0) \cup StoredKeysOf(F)
                /\ \A k \in StoredKeysOf(F) : f[k] = LastValueOf(F, k)
                /\ \A k \in (DOMAIN hist[1].fields0) \ StoredKeysOf(F) :
                      f[k] = hist[1].fields0[k]
    /\ \A i \in DOMAIN writes :
          LET m == MergedPayload(hist[1].fields0, writes[i].newFields, writes[i].ze)
          IN PayloadOf(writes[i]) = [k \in {x \in DOMAIN m : ~IsExtractedKey(x)} |-> m[k]]

\* C17 witness: two children of a parent with fields, derived by different callers
\* with different fields, the first to return having begun last, and a record
\* written to the parent between the other With call's begin and return
C17_Witness ==
    /\ Len(cores) = 3
    /\ DOMAIN hist[1].fields0 # {}
    /\ hist[2].added # hist[3].added
    /\ cores[3].fields < cores[2].fields
    /\ \E i \in DOMAIN writes : cores[2].fields < writes[i].entry.Payload
    /\ \E w \in Writers : call[w].pc = "returned" /\ call[w].id = 0

\* the labels, httpRequest and insert id that a merged payload m holds
LabelsIn(m) ==
    LET keys == {k \in DOMAIN m : IsLabelKey(k)}
    IN [name \in {SliceFrom(k, 7) : k \in keys} |->
          m[CHOOSE k \in keys : SliceFrom(k, 7) = name].s]
HTTPRequestIn(m) ==
    IF KeyHTTPRequest \in DOMAIN m
    THEN <<[Method |-> m[KeyHTTPRequest].s, Status |-> m[KeyHTTPRequest].n]>> ELSE <<>>
InsertIDIn(m) ==
    IF InsertIDKey \in DOMAIN m /\ m[InsertIDKey].t = "string" THEN m[InsertIDKey].s ELSE ""

\* the parts of a delivered record that extraction makes
ExtractedParts(wr) ==
    [payload |-> PayloadOf(wr), labels |-> wr.entry.Labels,
     httpRequest |-> wr.entry.HTTPRequest, insertId |-> wr.entry.InsertID]

\* C18: extraction in Write is deterministic: for a given core, entry and field
\* list (labels strings, httpRequest an HTTP payload) the delivered record's
\* payload, labels, httpRequest and insertId are a function of these alone, the
\* same for every order in which the range loop visits the payload's keys, so any
\* two records written from the same input have the same parts
C18_ExtractionDeterministic ==
    /\ \A i \in DOMAIN writes :
          LET m == MergedOf(writes[i])
          IN ExtractedParts(writes[i]) =
                [payload |-> [k \in {x \in DOMAIN m : ~IsExtractedKey(x)} |-> m[k]],
                 labels |-> LabelsIn(m),
                 httpRequest |-> HTTPRequestIn(m),
                 insertId |-> InsertIDIn(m)]
    /\ \A i, j \in DOMAIN writes :
          ( /\ writes[i].core = writes[j].core
            /\ writes[i].ze = writes[j].ze
            /\ writes[i].newFields = writes[j].newFields )
          => ExtractedParts(writes[i]) = ExtractedParts(writes[j])
    /\ \A w \in Writers : call[w].pc # "panicked"

\* C18 witness: two records written from the same input, with two labels and an
\* httpRequest, whose range loops took the keys in different orders, one meeting
\* the httpRequest key first and the other meeting it last
C18_Witness ==
    \E i, j \in DOMAIN writes :
        /\ i # j
        /\ writes[i].newFields = writes[j].newFields
        /\ writes[i].ze = writes[j].ze
        /\ Len(visited[i]) = 4 /\ Len(visited[j]) = 4
        /\ visited[i][1] = KeyHTTPRequest
        /\ visited[j][4] = KeyHTTPRequest
        /\ visited[i][2] = KeyLabelsTier
        /\ visited[j][1] = KeyLabelsEnv
        /\ DOMAIN writes[i].entry.Labels = {<<"e","n","v">>, <<"t","i","e","r">>}
        /\ writes[j].entry.HTTPRequest # <<>>

\* a wrapped core with a level threshold: enabled from some level up, or at no level
IsThreshold(levels) == \A l \in levels, k \in Levels : k >= l => k \in levels

\* C19 as stated: for the cloud core that Tee builds over a wrapped core zc with
\* any level threshold, a zc enabled at no level included, the cloud core is
\* enabled at a level between debug and fatal if and only if zc is, and an entry
\* logged through the composite goes to the cloud core exactly when it goes to zc
C19_CloudCoreEnabledIffZc ==
    (tee.by = "Tee" /\ IsThreshold(tee.zc)) =>
        /\ \A l \in Levels : Enabled(tee.gc, l) <=> ZcEnabled(tee.zc, l)
        /\ checked.core = 0 /\ checked.ze # NoEntry =>
              LET on == {checked.ce[i] : i \in DOMAIN checked.ce}
              IN tee.gc \in on <=> ZcCore \in on

\* C20 (state part): every Write call that got past its Log call has one record in
\* the sink, at the place of the call among the caller's calls, completed with the
\* entry's message; no Write made a Flush call; and at every Sync each Write begun
\* before it had its record in the sink
WritesLogOnce ==
    /\ Len(writes) = nCalls - Cardinality({w \in Writers : call[w].pc \in {"range", "panicked"}})
    /\ \A l \in LoggerIds : Delivered(l)
    /\ \A w \in Writers :
          call[w].pc \in {"return", "returned"} =>
             /\ call[w].id \in DOMAIN sinkLog["gcl"]
             /\ sinkLog["gcl"][call[w].id] = call[w].entry
             /\ call[w].entry.Timestamp = call[w].ze.Time
             /\ Deref(heap, call[w].entry.Payload)[KeyMessage] = StringValue(call[w].ze.Message)
             /\ call[w].result = NoError
    /\ \A i \in DOMAIN writes : sinkLog["gcl"][i].Payload = writes[i].entry.Payload
    /\ sinkFlush["gcl"] = Len(syncs)
    /\ \A i \in DOMAIN syncs : syncs[i].logged = syncs[i].begun

\* C20 (step part): the sink gets a record only from the Log call of a Write, one
\* record, added after those of the caller's earlier calls, with no Flush; the
\* return of a Write calls neither Log nor Flush; Flush is called only by Sync
WriteStepLogs ==
    /\ sinkLog' # sinkLog =>
          \E w \in Writers :
             /\ call[w].pc = "range" /\ call'[w].pc = "return"
             /\ sinkLog' = [sinkLog EXCEPT !["gcl"] = Append(@, call'[w].entry)]
             /\ Len(sinkLog'["gcl"]) = call[w].id
             /\ sinkFlush' = sinkFlush
    /\ \A w \in Writers :
          (call[w].pc = "return" /\ call'[w].pc = "returned") =>
             sinkLog' = sinkLog /\ sinkFlush' = sinkFlush
    /\ \A w \in Writers :
          (call[w].pc = "range" /\ call'[w].pc \in {"range", "panicked"}) =>
             sinkLog' = sinkLog /\ sinkFlush' = sinkFlush
    /\ sinkFlush' # sinkFlush =>
          /\ Len(syncs') = Len(syncs) + 1
          /\ sinkLog' = sinkLog
          /\ syncs'[Len(syncs')].logged = nCalls

\* C20: every Write call that returns has called the sink's Log exactly once,
\* before returning, with the completed record, and has not called Flush; records
\* reach the sink in the order of the caller's Write calls, and when a caller does
\* Write(e) and then Sync() the sink sees Log(e) before the Flush
C20_WriteLogsOnceBeforeReturn == []WritesLogOnce /\ [][WriteStepLogs]_vars

\* C20 witness: Write(hello), Sync, Write(boom) by one caller, all returned: two
\* different records in the sink in that order, the Flush made after the first
C20_Witness ==
    /\ call[1].pc = "returned"
    /\ call[1].id = 2
    /\ Len(sinkLog["gcl"]) = 2
    /\ sinkLog["gcl"][1].Severity # sinkLog["gcl"][2].Severity
    /\ writes[1].ze = EntryHello /\ writes[2].ze = EntryBoom
    /\ Len(syncs) = 1
    /\ syncs[1].begun = 1 /\ syncs[1].logged = 1
    /\ sinkFlush["gcl"] = 1

====
